---- MODULE Spec2Model ----
(***************************************************************************)
(* Model of the Nexmosphere serial bridge (src/unnamed/part_000 and its    *)
(* older variant src/index.js): the rate-limited command dispatcher        *)
(* (processQueue / queueCommand), and the fan-out of device lines to the   *)
(* WebSocket clients.  JavaScript runs each callback to completion, so     *)
(* every handler is one atomic action; between two handlers the clock may  *)
(* advance, timers may become due and outstanding writes may complete.     *)
(***************************************************************************)
EXTENDS Integers, Sequences, FiniteSets, TLC

\* ------------------------------------------------------------- bounds
\* Number of POST /send-command requests a behaviour may make.
MaxRequests == 3
\* Granularity of the modelled clock, in milliseconds.
Tick == 100
\* Number of ticks the clock may advance while nothing is pending.
MaxTicks == 4
\* Date.now() when the server starts (any value of at least RATE_LIMIT_MS
\* behaves alike: lastCommandTime starts at 0 and the epoch is far away).
StartTime == 1000

\* ------------------------------------------------------------- constants
\* const RATE_LIMIT_MS = 300;
RATE_LIMIT_MS == 300

CR == "\r"
LF == "\n"
\* The characters String.prototype.trim removes, as far as the inputs use them.
Whitespace == {" ", "\t", CR, LF}

\* Request bodies of POST /send-command: has = FALSE is a body without a
\* "command" member; commands are sequences of characters.
RawCommands == { <<>>, <<"A">>, <<"B", CR, LF>> }
Bodies == {[has |-> FALSE, command |-> <<>>]}
            \cup {[has |-> TRUE, command |-> c] : c \in RawCommands}

VARIABLES
  clock,             \* Date.now()
  commandQueue,      \* const commandQueue = []: records [id, command]
  isProcessingQueue, \* let isProcessingQueue = false
  lastCommandTime,   \* let lastCommandTime = 0
  timers,            \* pending setTimeout callbacks of processQueue: [due]
  writes,            \* port.write calls whose callback has not run yet
  issued,            \* every port.write call made so far, in call order
  requests,          \* bodies of the POST /send-command requests so far
  outcome,           \* per request: the resolve/reject calls of its promise
  responses,         \* per request: the HTTP response, or NoResponse
  crashed,           \* an exception escaped a timer callback
  variant,           \* which server file runs
  readyState,        \* per WebSocket: its readyState
  seen,              \* per WebSocket: the events emitted for it so far
  connectedClients,  \* part_000: const connectedClients = new Set()
  dataListeners,     \* index.js: the parser.on('data') listeners, per socket
  lines,             \* the lines the parser has emitted, in order
  sent,              \* per WebSocket: the send(data) calls made on it
  hubCrashed,        \* an 'error' event found no listener
  statusCalls,       \* the GET /check-rfid-status requests so far
  portEvents,        \* the 'error' / 'close' events the serial port emitted
  stickerIn,         \* getStickers: the line it is applied to
  stickerOut,        \* getStickers: what it returned
  stickerDone        \* getStickers has returned

dvars == <<clock, commandQueue, isProcessingQueue, lastCommandTime, timers,
           writes, issued, requests, outcome, responses, crashed>>

NoResponse == [status |-> 0, command |-> <<>>]

\* ------------------------------------------------------------- strings
Max(a, b) == IF a >= b THEN a ELSE b

RECURSIVE TrimStart(_)
TrimStart(s) ==
  IF s # <<>> /\ Head(s) \in Whitespace THEN TrimStart(Tail(s)) ELSE s

RECURSIVE TrimEnd(_)
TrimEnd(s) ==
  IF s # <<>> /\ s[Len(s)] \in Whitespace
    THEN TrimEnd(SubSeq(s, 1, Len(s) - 1)) ELSE s

\* command.trim()
Trim(s) == TrimEnd(TrimStart(s))

\* command.endsWith('\r\n')
EndsWithCRLF(s) == Len(s) >= 2 /\ s[Len(s) - 1] = CR /\ s[Len(s)] = LF

\* The terminator appended whatever the command ends with.
FormatAlwaysAppend(s) == s \o <<CR, LF>>

\* const formattedCommand = command.endsWith('\r\n') ? command : command + '\r\n'
FormatCommand(s) == IF EndsWithCRLF(s) THEN s ELSE s \o <<CR, LF>>

\* ------------------------------------------------------------- dispatcher
\* Delay with the subtraction turned around.
DelayInverted(now, last) == Max(0, (now - last) - RATE_LIMIT_MS)

\* The full rate limit as the delay, whatever time has passed.
DelayFull(now, last) == RATE_LIMIT_MS

\* The delay without its floor at zero.
DelayNoFloor(now, last) == RATE_LIMIT_MS - (now - last)

\* const delay = Math.max(0, RATE_LIMIT_MS - (now - lastCommandTime))
Delay(now, last) == Max(0, RATE_LIMIT_MS - (now - last))

\* processQueue's guard without the test of the flag.
CanAdvanceIgnoringBusy(busy, queue) == queue # <<>>

\* processQueue's guard without the test of the queue.
CanAdvanceIgnoringEmpty(busy, queue) == ~busy

\* if (isProcessingQueue || commandQueue.length === 0) return;
CanAdvance(busy, queue) == ~busy /\ queue # <<>>

\* processQueue(), called with the queue and the flag as its caller left
\* them: a no-op when busy or empty, else it takes the flag and arms the
\* rate-limit timer.
processQueue(queue, busy) ==
  IF CanAdvance(busy, queue)
    THEN /\ isProcessingQueue' = TRUE
         /\ timers' = Append(timers, [due |-> clock + Delay(clock, lastCommandTime)])
    ELSE /\ isProcessingQueue' = busy
         /\ timers' = timers

\* unshift in place of push.
PushFront(queue, entry) == <<entry>> \o queue

\* commandQueue.push({ command, resolve, reject })
Push(queue, entry) == Append(queue, entry)

\* queueCommand(command) for request id
queueCommand(id, command) ==
  /\ commandQueue' = Push(commandQueue, [id |-> id, command |-> command])
  /\ processQueue(commandQueue', isProcessingQueue)

\* if (!command): a missing member or the empty string
Falsy(body) == ~body.has \/ body.command = <<>>

\* app.post('/send-command'): 400 without a command, else the formatted
\* command is queued and the response waits for the promise.
PostSendCommand(body) ==
  /\ ~crashed
  /\ Len(requests) < MaxRequests
  /\ requests' = Append(requests, body)
  /\ outcome' = Append(outcome, <<>>)
  /\ IF Falsy(body)
       THEN /\ responses' = Append(responses, [status |-> 400, command |-> <<>>])
            /\ UNCHANGED <<commandQueue, isProcessingQueue, timers>>
       ELSE /\ responses' = Append(responses, NoResponse)
            /\ queueCommand(Len(requests) + 1, FormatCommand(body.command))
  /\ UNCHANGED <<clock, lastCommandTime, writes, issued, crashed>>

\* A dequeue that empties the queue.
ShiftRestAll(queue) == <<>>

\* commandQueue.shift(): the entry taken and the queue left
ShiftEntry(queue) == Head(queue)
ShiftRest(queue) == Tail(queue)

RemoveAt(s, i) == SubSeq(s, 1, i - 1) \o SubSeq(s, i + 1, Len(s))

\* The setTimeout callback of processQueue.  Destructuring the result of
\* shift() on an empty queue throws, and nothing catches it.
TimerFire(i) ==
  /\ ~crashed
  /\ i \in 1..Len(timers)
  /\ timers[i].due <= clock
  /\ timers' = RemoveAt(timers, i)
  /\ IF commandQueue = <<>>
       THEN /\ crashed' = TRUE
            /\ UNCHANGED <<commandQueue, lastCommandTime, writes, issued>>
       ELSE LET e == ShiftEntry(commandQueue)
                w == [id |-> e.id, command |-> e.command, src |-> "queue",
                      n |-> Len(issued) + 1]
            IN /\ commandQueue' = ShiftRest(commandQueue)
               /\ lastCommandTime' = clock
               /\ writes' = Append(writes, w)
               /\ issued' = Append(issued, [id |-> e.id, command |-> e.command,
                                            src |-> "queue", time |-> clock])
               /\ crashed' = FALSE
  /\ UNCHANGED <<clock, isProcessingQueue, requests, outcome, responses>>

\* The value the promise of a write is settled with.
Settlement(w, err) ==
  IF err THEN [kind |-> "reject", command |-> <<>>, write |-> w.n]
         ELSE [kind |-> "resolve", command |-> Trim(w.command), write |-> w.n]

\* resolve/reject kept in one shared variable, set by the first entry.
SettledEntryShared(w) == 1

\* The entry whose resolve/reject the callback of write w calls.
SettledEntry(w) == w.id

\* What POST /send-command answers once its promise settles: res.json(result)
\* or res.status(500); only the first settlement of a promise counts.
Respond(old, s) ==
  IF old # NoResponse THEN old
  ELSE IF s.kind = "resolve" THEN [status |-> 200, command |-> s.command]
  ELSE [status |-> 500, command |-> <<>>]

\* The error branch returning before the flag is cleared.
KeepFlagOnError(busy, err) == IF err THEN busy ELSE FALSE

\* The flag never cleared.
KeepFlag(busy, err) == busy

\* isProcessingQueue = false: the callback clears the flag after either
\* branch, whatever err was.
ReleasedFlag(busy, err) == FALSE

\* The callback not calling processQueue again.
NoAdvanceAfterWrite(queue, busy) ==
  /\ isProcessingQueue' = busy
  /\ timers' = timers

\* processQueue(); // Process next command in queue
AdvanceAfterWrite(queue, busy) == processQueue(queue, busy)

\* The callback of the dispatcher's port.write(command, (err) => ...).
\* Writes of one stream complete in the order they were issued.
WriteComplete(err) ==
  /\ ~crashed
  /\ writes # <<>>
  /\ Head(writes).src = "queue"
  /\ LET w == Head(writes)
         s == Settlement(w, err)
         id == SettledEntry(w)
     IN /\ outcome' = [outcome EXCEPT ![id] = Append(@, s)]
        /\ responses' = [responses EXCEPT ![id] = Respond(@, s)]
  /\ writes' = Tail(writes)
  /\ AdvanceAfterWrite(commandQueue, ReleasedFlag(isProcessingQueue, err))
  /\ UNCHANGED <<clock, commandQueue, lastCommandTime, issued, requests, crashed>>

\* Something of the dispatcher is still pending.
Pending == timers # <<>> \/ writes # <<>>

\* Time passes.  The clock is capped once nothing is pending; while a timer
\* or a write is pending it may always advance.
Advance ==
  /\ ~crashed
  /\ \/ clock < StartTime + MaxTicks * Tick
     \/ \E i \in 1..Len(timers) : timers[i].due > clock
  /\ clock' = clock + Tick
  /\ UNCHANGED <<commandQueue, isProcessingQueue, lastCommandTime, timers,
                 writes, issued, requests, outcome, responses, crashed>>

DispatcherInit ==
  /\ clock = StartTime
  /\ commandQueue = <<>>
  /\ isProcessingQueue = FALSE
  /\ lastCommandTime = 0
  /\ timers = <<>>
  /\ writes = <<>>
  /\ issued = <<>>
  /\ requests = <<>>
  /\ outcome = <<>>
  /\ responses = <<>>
  /\ crashed = FALSE

\* ------------------------------------------------------------- fan-out
\* bounds: WebSocket connections and device lines of a behaviour
MaxClients == 2
MaxLines == 2

\* client.readyState === 1 // 1 = OPEN; the other states of a ws socket
OPEN == 1
CONNECTING == OPEN - 1
CLOSING == OPEN + 1
CLOSED == OPEN + 2

Clients == 1..MaxClients
\* The lines the ReadlineParser may emit, the empty line included.
Lines == { <<>>, <<"X">> }
\* The two server files of the repository.
Variants == {"part_000", "index.js"}

hvars == <<variant, readyState, seen, connectedClients, dataListeners,
           lines, sent, hubCrashed>>

vars == <<dvars, hvars, statusCalls, portEvents, stickerIn, stickerOut,
         stickerDone>>

HubInit ==
  /\ readyState = [c \in Clients |-> CONNECTING]
  /\ seen = [c \in Clients |-> {}]
  /\ connectedClients = {}
  /\ dataListeners = <<>>
  /\ lines = <<>>
  /\ sent = [c \in Clients |-> <<>>]
  /\ hubCrashed = FALSE

\* The socket is one the server has accepted and not yet seen closed.
Live(c) == "connection" \in seen[c] /\ "close" \notin seen[c]

\* connectedClients.add(ws)
AddClient(set, c) == set \cup {c}
\* The set cleared where one socket was to be deleted.
DeleteClientClear(set, c) == {}

\* connectedClients.delete(ws)
DeleteClient(set, c) == set \ {c}

\* wss.on('connection') of part_000: the socket is OPEN when the event is
\* emitted, and the handler registers it.
Connection(c) ==
  /\ variant = "part_000" /\ ~hubCrashed
  /\ readyState[c] = CONNECTING
  /\ readyState' = [readyState EXCEPT ![c] = OPEN]
  /\ seen' = [seen EXCEPT ![c] = @ \cup {"connection"}]
  /\ connectedClients' = AddClient(connectedClients, c)
  /\ UNCHANGED <<variant, dataListeners, lines, sent, hubCrashed>>

\* The closing handshake starts (either side): the socket is CLOSING, no
\* event has been emitted yet and no handler runs.
BeginClose(c) ==
  /\ ~hubCrashed
  /\ readyState[c] = OPEN
  /\ readyState' = [readyState EXCEPT ![c] = CLOSING]
  /\ UNCHANGED <<variant, seen, connectedClients, dataListeners, lines, sent,
                 hubCrashed>>

\* ws.on('error') of part_000: ws leaves OPEN before it emits 'error'.
WsError(c) ==
  /\ variant = "part_000" /\ ~hubCrashed
  /\ Live(c)
  /\ readyState' = [readyState EXCEPT ![c] = CLOSING]
  /\ seen' = [seen EXCEPT ![c] = @ \cup {"error"}]
  /\ connectedClients' = DeleteClient(connectedClients, c)
  /\ UNCHANGED <<variant, dataListeners, lines, sent, hubCrashed>>

\* ws.on('close') of part_000: emitted once, with the socket CLOSED.
WsClose(c) ==
  /\ variant = "part_000" /\ ~hubCrashed
  /\ Live(c)
  /\ readyState' = [readyState EXCEPT ![c] = CLOSED]
  /\ seen' = [seen EXCEPT ![c] = @ \cup {"close"}]
  /\ connectedClients' = DeleteClient(connectedClients, c)
  /\ UNCHANGED <<variant, dataListeners, lines, sent, hubCrashed>>

\* A broadcast that sends to every registered socket, open or not.
ShouldSendAlways(state) == TRUE

\* if (client.readyState === 1)
ShouldSend(state) == state = OPEN

\* Two send calls for one line.
SendTwice(calls, n, data, state) ==
  Append(Append(calls, [n |-> n, data |-> data, open |-> state = OPEN]),
         [n |-> n, data |-> data, open |-> state = OPEN])

\* client.send(data) / ws.send(data) for the n-th line: the call, and
\* whether the socket was OPEN (ws transmits a frame only then).
Send(calls, n, data, state) ==
  Append(calls, [n |-> n, data |-> data, open |-> state = OPEN])

\* parser.on('data') of part_000: the broadcast over connectedClients.
ParserData(data) ==
  /\ variant = "part_000" /\ ~hubCrashed
  /\ Len(lines) < MaxLines
  /\ lines' = Append(lines, data)
  /\ sent' = [c \in Clients |->
                IF c \in connectedClients /\ ShouldSend(readyState[c])
                  THEN Send(sent[c], Len(lines) + 1, data, readyState[c])
                  ELSE sent[c]]
  /\ UNCHANGED <<variant, readyState, seen, connectedClients, dataListeners,
                 hubCrashed>>

\* wss.on('connection') of index.js: a 'data' listener per connection on
\* the shared parser, sending to that socket.
LegacyConnection(c) ==
  /\ variant = "index.js" /\ ~hubCrashed
  /\ readyState[c] = CONNECTING
  /\ readyState' = [readyState EXCEPT ![c] = OPEN]
  /\ seen' = [seen EXCEPT ![c] = @ \cup {"connection"}]
  /\ dataListeners' = Append(dataListeners, c)
  /\ UNCHANGED <<variant, connectedClients, lines, sent, hubCrashed>>

\* ws.on('close') of index.js: it logs, and leaves the 'data' listener.
LegacyClose(c) ==
  /\ variant = "index.js" /\ ~hubCrashed
  /\ Live(c)
  /\ readyState' = [readyState EXCEPT ![c] = CLOSED]
  /\ seen' = [seen EXCEPT ![c] = @ \cup {"close"}]
  /\ UNCHANGED <<variant, connectedClients, dataListeners, lines, sent,
                 hubCrashed>>

\* An 'error' event in index.js, which registers no 'error' listener: the
\* emitter throws and nothing catches it.
LegacyError(c) ==
  /\ variant = "index.js" /\ ~hubCrashed
  /\ Live(c)
  /\ readyState' = [readyState EXCEPT ![c] = CLOSING]
  /\ seen' = [seen EXCEPT ![c] = @ \cup {"error"}]
  /\ hubCrashed' = TRUE
  /\ UNCHANGED <<variant, connectedClients, dataListeners, lines, sent>>

\* The number of 'data' listeners of index.js that send to socket c.
RECURSIVE ListenersOf(_, _)
ListenersOf(ls, c) ==
  IF ls = <<>> THEN 0
  ELSE (IF Head(ls) = c THEN 1 ELSE 0) + ListenersOf(Tail(ls), c)

RECURSIVE SendTimes(_, _, _, _, _)
SendTimes(k, calls, n, data, state) ==
  IF k = 0 THEN calls
  ELSE SendTimes(k - 1, Send(calls, n, data, state), n, data, state)

\* A line emitted by the parser of index.js: every listener registered so
\* far runs ws.send(data) on its socket, whatever the socket's state.
LegacyData(data) ==
  /\ variant = "index.js" /\ ~hubCrashed
  /\ Len(lines) < MaxLines
  /\ lines' = Append(lines, data)
  /\ sent' = [c \in Clients |->
                SendTimes(ListenersOf(dataListeners, c), sent[c],
                          Len(lines) + 1, data, readyState[c])]
  /\ UNCHANGED <<variant, readyState, seen, connectedClients, dataListeners,
                 hubCrashed>>

\* ------------------------------------------------------------- status parser
\* bound: length of the lines getStickers is applied to
MaxLineLen == 6

\* The characters that matter to getStickers.
StickerAlphabet == {"[", "]", " ", "d", "0", "1"}

\* string.includes(ch)
Includes(s, ch) == \E i \in 1..Len(s) : s[i] = ch

\* string.indexOf(ch) + 1, 0 when ch does not occur
RECURSIVE IndexOf(_, _)
IndexOf(s, ch) ==
  IF s = <<>> THEN 0
  ELSE IF Head(s) = ch THEN 1
  ELSE LET r == IndexOf(Tail(s), ch) IN IF r = 0 THEN 0 ELSE r + 1

\* string.split(ch): the pieces between the occurrences of ch
RECURSIVE Split(_, _)
Split(s, ch) ==
  LET i == IndexOf(s, ch)
  IN IF i = 0 THEN <<s>>
     ELSE <<SubSeq(s, 1, i - 1)>> \o Split(SubSeq(s, i + 1, Len(s)), ch)

\* A replace that removes every occurrence of ch.
ReplaceAll(s, ch) == SelectSeq(s, LAMBDA x : x # ch)

\* x.replace(ch, ''): a string pattern replaces its first occurrence only
ReplaceFirst(s, ch) ==
  LET i == IndexOf(s, ch)
  IN IF i = 0 THEN s ELSE SubSeq(s, 1, i - 1) \o SubSeq(s, i + 1, Len(s))

\* x == '001' ? 'mist' : 'mask'
TagOf(code) == IF code = <<"0", "0", "1">> THEN "mist" ELSE "mask"

\* string.split('[')[1] then string.split(']')[0]
Bracketed(s) == Split(Split(s, "[")[2], "]")[1]

\* .filter(x => x).map(x => x.replace('d', '')).filter(x => x !== '000')
\*  .map(x => x == '001' ? 'mist' : 'mask')
StickerCodes(tokens) ==
  LET nonEmpty == SelectSeq(tokens, LAMBDA x : x # <<>>)
      stripped == [i \in 1..Len(nonEmpty) |-> ReplaceFirst(nonEmpty[i], "d")]
  IN SelectSeq(stripped, LAMBDA x : x # <<"0", "0", "0">>)

\* function getStickers(string)
getStickers(string) ==
  IF string = <<>> \/ ~Includes(string, "[") THEN <<>>
  ELSE LET codes == StickerCodes(Split(Bracketed(string), " "))
       IN [i \in 1..Len(codes) |-> TagOf(codes[i])]

\* The lines of the spec's examples.
Example1 == <<"X", "0", "0", "8", "B", "[", "d", "0", "0", "1", " ",
              "d", "0", "0", "0", " ", "d", "0", "0", "2", "]">>
Example2 == <<"X", "0", "0", "8", "B", "[", "]">>
Example3 == <<"X", "0", "0", "8", "B">>
Example4 == <<"[", "d", "0", "0", "0", "]">>

\* The lines getStickers is tried on: every line over the alphabet up to
\* the bound, and the examples.
StickerInputs ==
  UNION {[1..n -> StickerAlphabet] : n \in 0..MaxLineLen}
    \cup {Example1, Example2, Example3, Example4}

\* getStickers(status) applied to the line drawn.
ParseStatus ==
  /\ ~stickerDone
  /\ stickerOut' = getStickers(stickerIn)
  /\ stickerDone' = TRUE
  /\ UNCHANGED stickerIn

ParserIdle ==
  /\ stickerIn = <<>>
  /\ stickerOut = <<>>
  /\ stickerDone = FALSE

\* ------------------------------------------------------------- status check
\* bounds: GET /check-rfid-status requests and serial-port events
MaxStatus == 1
MaxPortEvents == 2
\* bound: device lines that reach the parser of one status check
MaxStatusLines == 2

\* req.query of GET /check-rfid-status: has = FALSE is a query without a
\* "channel" parameter.
Queries == { [has |-> FALSE, channel |-> <<>>],
             [has |-> TRUE, channel |-> <<>>],
             [has |-> TRUE, channel |-> <<"0", "0", "1">>] }

\* The lines the per-call parser of sendCommand may hand to its listener.
StatusLines == { <<>>, <<"[", "d", "0", "0", "1", "]">> }

svars == <<statusCalls, portEvents>>
pvars == <<stickerIn, stickerOut, stickerDone>>

NoStatusResponse == [status |-> 0, body |-> <<>>]

\* const xTalkChannel = channel || '008'
XTalkChannel(q) ==
  IF ~q.has \/ q.channel = <<>> THEN <<"0", "0", "8">> ELSE q.channel

\* const command = `X${xTalkChannel}B[]\r\n`
StatusCommand(ch) == <<"X">> \o ch \o <<"B", "[", "]", CR, LF>>

\* A status check that waits for the dispatcher to be idle.
StatusMayWriteWhenIdle(busy) == ~busy

\* sendCommand calls port.write at once: it reads neither the flag nor the
\* queue.
StatusMayWrite(busy) == TRUE

\* lastCommandTime as sendCommand leaves it: it does not assign it.
StatusStamp(last, now) == last

\* if (status) res.send(getStickers(status)) else res.status(500): what the
\* request answers when its promise settles; only the first settlement of a
\* promise counts.
StatusRespond(old, s) ==
  IF old # NoStatusResponse THEN old
  ELSE IF s.kind = "resolve" /\ s.data # <<>>
    THEN [status |-> 200, body |-> getStickers(s.data)]
    ELSE [status |-> 500, body |-> <<>>]

\* app.get('/check-rfid-status') up to its await: checkRFIDStatus calls
\* sendCommand, which writes the command and pipes a parser of its own.
GetCheckRfidStatus(q) ==
  /\ ~crashed
  /\ Len(statusCalls) < MaxStatus
  /\ StatusMayWrite(isProcessingQueue)
  /\ LET k == Len(statusCalls) + 1
         command == StatusCommand(XTalkChannel(q))
     IN /\ writes' = Append(writes, [id |-> k, command |-> command,
                                     src |-> "status", n |-> Len(issued) + 1])
        /\ issued' = Append(issued, [id |-> k, command |-> command,
                                     src |-> "status", time |-> clock])
  /\ statusCalls' = Append(statusCalls,
       [query |-> q, arrived |-> <<>>, settled |-> <<>>, listening |-> TRUE,
        response |-> NoStatusResponse])
  /\ lastCommandTime' = StatusStamp(lastCommandTime, clock)
  /\ UNCHANGED <<clock, commandQueue, isProcessingQueue, timers, requests,
                 outcome, responses, crashed, portEvents>>

\* The callback of sendCommand's port.write: reject on an error, a log line
\* otherwise.
StatusWriteComplete(err) ==
  /\ ~crashed
  /\ writes # <<>>
  /\ Head(writes).src = "status"
  /\ LET k == Head(writes).id
         s == [kind |-> "reject", data |-> <<>>]
     IN statusCalls' =
          IF err
            THEN [statusCalls EXCEPT
                    ![k].settled = Append(@, s),
                    ![k].response = StatusRespond(@, s)]
            ELSE statusCalls
  /\ writes' = Tail(writes)
  /\ UNCHANGED <<clock, commandQueue, isProcessingQueue, lastCommandTime,
                 timers, issued, requests, outcome, responses, crashed,
                 portEvents>>

\* A line of the device reaches the parser of call k, which emits it to
\* parser.once('data'): the first line emitted resolves the promise, whether
\* or not the write has completed.  Whether the parser emits an empty line
\* is up to the stream library (emitted = FALSE: it is dropped).
StatusData(k, data, emitted) ==
  /\ ~crashed
  /\ k \in 1..Len(statusCalls)
  /\ statusCalls[k].listening
  /\ Len(statusCalls[k].arrived) < MaxStatusLines
  /\ data = <<>> \/ emitted
  /\ LET s == [kind |-> "resolve", data |-> data]
     IN statusCalls' =
          IF emitted
            THEN [statusCalls EXCEPT
                    ![k].arrived = Append(@, data),
                    ![k].listening = FALSE,
                    ![k].settled = Append(@, s),
                    ![k].response = StatusRespond(@, s)]
            ELSE [statusCalls EXCEPT ![k].arrived = Append(@, data)]
  /\ UNCHANGED <<dvars, portEvents>>

\* port.on('error') and port.on('close'): the handlers log.
PortEvent(ev) ==
  /\ ~crashed
  /\ Len(portEvents) < MaxPortEvents
  /\ portEvents' = Append(portEvents, ev)
  /\ UNCHANGED <<dvars, statusCalls>>

StatusIdle ==
  /\ statusCalls = <<>>
  /\ portEvents = <<>>

Init ==
  /\ DispatcherInit
  /\ HubInit
  /\ variant = "part_000"
  /\ StatusIdle
  /\ ParserIdle

\* The steps of the dispatcher; they leave the rest alone.
RequestStep ==
  (\E body \in Bodies : PostSendCommand(body)) /\ UNCHANGED <<hvars, svars, pvars>>
TimerStep ==
  (\E i \in 1..Len(timers) : TimerFire(i)) /\ UNCHANGED <<hvars, svars, pvars>>
WriteStep ==
  (\E err \in BOOLEAN : WriteComplete(err)) /\ UNCHANGED <<hvars, svars, pvars>>
ClockStep == Advance /\ UNCHANGED <<hvars, svars, pvars>>

Next ==
  \/ RequestStep
  \/ TimerStep
  \/ WriteStep
  \/ ClockStep

\* The command dispatcher (the same code in part_000 and index.js).
Spec == Init /\ [][Next]_vars

HubInitAll ==
  /\ DispatcherInit
  /\ HubInit
  /\ variant \in Variants
  /\ StatusIdle
  /\ ParserIdle

HubNext ==
  \/ (\E c \in Clients : Connection(c)) /\ UNCHANGED <<dvars, svars, pvars>>
  \/ (\E c \in Clients : BeginClose(c)) /\ UNCHANGED <<dvars, svars, pvars>>
  \/ (\E c \in Clients : WsError(c)) /\ UNCHANGED <<dvars, svars, pvars>>
  \/ (\E c \in Clients : WsClose(c)) /\ UNCHANGED <<dvars, svars, pvars>>
  \/ (\E data \in Lines : ParserData(data)) /\ UNCHANGED <<dvars, svars, pvars>>
  \/ (\E c \in Clients : LegacyConnection(c)) /\ UNCHANGED <<dvars, svars, pvars>>
  \/ (\E c \in Clients : LegacyClose(c)) /\ UNCHANGED <<dvars, svars, pvars>>
  \/ (\E c \in Clients : LegacyError(c)) /\ UNCHANGED <<dvars, svars, pvars>>
  \/ (\E data \in Lines : LegacyData(data)) /\ UNCHANGED <<dvars, svars, pvars>>

\* The fan-out of device lines to the WebSocket clients, of either file.
HubSpec == HubInitAll /\ [][HubNext]_vars

\* The fan-out of part_000 alone.
Part000HubSpec == Init /\ [][HubNext]_vars

\* The steps of the status check and of the serial port's events.
StatusRequestStep ==
  (\E q \in Queries : GetCheckRfidStatus(q)) /\ UNCHANGED <<hvars, pvars>>
StatusWriteStep ==
  (\E err \in BOOLEAN : StatusWriteComplete(err)) /\ UNCHANGED <<hvars, pvars>>
StatusDataStep ==
  (\E k \in 1..Len(statusCalls), data \in StatusLines, emitted \in BOOLEAN :
     StatusData(k, data, emitted))
    /\ UNCHANGED <<hvars, pvars>>
PortEventStep ==
  (\E ev \in {"error", "close"} : PortEvent(ev)) /\ UNCHANGED <<hvars, pvars>>

\* POST /send-command with the one body the status check is tried against.
OneRequestStep ==
  PostSendCommand([has |-> TRUE, command |-> <<"A">>])
    /\ UNCHANGED <<hvars, svars, pvars>>

\* GET /check-rfid-status without a channel.
OneStatusStep ==
  GetCheckRfidStatus([has |-> FALSE, channel |-> <<>>])
    /\ UNCHANGED <<hvars, pvars>>

\* The dispatcher and the writes of the status check, on one port and one
\* clock.
RaceNext ==
  \/ OneRequestStep
  \/ TimerStep
  \/ WriteStep
  \/ ClockStep
  \/ OneStatusStep
  \/ StatusWriteStep

RaceSpec == Init /\ [][RaceNext]_vars

\* The status check from request to answer, beside the dispatcher, within
\* one instant of the clock.
StatusNext ==
  \/ StatusRequestStep
  \/ StatusWriteStep
  \/ StatusDataStep
  \/ OneRequestStep
  \/ TimerStep
  \/ WriteStep

StatusSpec == Init /\ [][StatusNext]_vars

\* The dispatcher and the events of the serial port.
PortNext ==
  \/ Next
  \/ PortEventStep

PortSpec == Init /\ [][PortNext]_vars

\* getStickers applied to one line.
ParserInit ==
  /\ DispatcherInit
  /\ HubInit
  /\ variant = "part_000"
  /\ StatusIdle
  /\ stickerIn \in StickerInputs
  /\ stickerOut = <<>>
  /\ stickerDone = FALSE

ParserNext == ParseStatus /\ UNCHANGED <<dvars, hvars, svars>>

ParserSpec == ParserInit /\ [][ParserNext]_vars

\* The event loop runs a due timer and the callback of a finished write, and
\* time does not stop: the scheduling the liveness claims assume.
FairSpec ==
  /\ Spec
  /\ WF_vars(ClockStep)
  /\ WF_vars(TimerStep)
  /\ WF_vars(WriteStep)

\* ------------------------------------------------------------- vocabulary
\* The dispatcher's writes, in the order port.write was called.
QueueIssued == SelectSeq(issued, LAMBDA r : r.src = "queue")
\* The dispatcher's writes whose completion callback has not run.
QueueWrites == SelectSeq(writes, LAMBDA w : w.src = "queue")
\* Request id went through queueCommand.
Enqueued(id) == id \in 1..Len(requests) /\ ~Falsy(requests[id])
InQueue(id) == \E k \in 1..Len(commandQueue) : commandQueue[k].id = id
Issued(id) == \E n \in 1..Len(issued) : issued[n].id = id /\ issued[n].src = "queue"
Outstanding(id) == \E k \in 1..Len(writes) : writes[k].id = id /\ writes[k].src = "queue"
WriteCompleted(id) == Issued(id) /\ ~Outstanding(id)
Rejected(id) == id \in 1..Len(outcome) /\ \E k \in 1..Len(outcome[id]) : outcome[id][k].kind = "reject"
Resolved(id) == id \in 1..Len(outcome) /\ \E k \in 1..Len(outcome[id]) : outcome[id][k].kind = "resolve"

\* ------------------------------------------------------------- claims
\* C1: the dispatcher never has more than one port.write outstanding: no
\* second write is issued before the callback of the previous one has run.
C1_SingleFlight == Len(QueueWrites) <= 1

\* C1 witness: a write is outstanding while two more entries, enqueued
\* meanwhile, wait in the queue.
C1_Witness == Len(QueueWrites) = 1 /\ Len(commandQueue) >= 2

\* C2: writes are issued in the order of the queueCommand calls, failures or
\* not: the issued entries followed by the queued ones are exactly the
\* enqueued requests in request order, each once, with its own payload.
C2_FifoOrder ==
  LET ids == [n \in 1..Len(QueueIssued) |-> QueueIssued[n].id]
               \o [k \in 1..Len(commandQueue) |-> commandQueue[k].id]
      all == [n \in 1..Len(QueueIssued) |-> QueueIssued[n].command]
               \o [k \in 1..Len(commandQueue) |-> commandQueue[k].command]
  IN /\ \A i, j \in 1..Len(ids) : i < j => ids[i] < ids[j]
     /\ {ids[i] : i \in 1..Len(ids)} = {id \in 1..Len(requests) : Enqueued(id)}
     /\ \A i \in 1..Len(ids) : all[i] = FormatCommand(requests[ids[i]].command)

\* C2 witness: three writes were issued in request order although the first
\* one failed, and two of the requests carried the same command.
C2_Witness ==
  /\ Len(QueueIssued) = 3
  /\ Rejected(QueueIssued[1].id)
  /\ QueueIssued[1].command = QueueIssued[2].command

\* C3: the issue times of two successive dispatcher writes differ by at
\* least RATE_LIMIT_MS.
C3_RateLimit ==
  \A n \in 1..(Len(QueueIssued) - 1) :
    QueueIssued[n + 1].time - QueueIssued[n].time >= RATE_LIMIT_MS

\* C3 witness: the second write was issued exactly RATE_LIMIT_MS after the
\* first, and a third entry was enqueued before the second write completed.
C3_Witness ==
  /\ Len(QueueIssued) = 2
  /\ QueueIssued[2].time - QueueIssued[1].time = RATE_LIMIT_MS
  /\ Len(QueueWrites) = 1
  /\ Len(commandQueue) = 1

\* The last resolve/reject call of entry id.
LastOutcome(o) == o[Len(o)]

\* C4: the callback of a failed write rejects the written entry alone: no
\* other promise is touched, no queued entry is dropped, the flag is held
\* only to arm the timer of the next queued entry; and (under FairSpec) an
\* entry waiting when a write has failed is written afterwards.
C4_FailureIsolated ==
  /\ [][\A id \in 1..Len(outcome) :
          (Len(outcome'[id]) > Len(outcome[id])
             /\ LastOutcome(outcome'[id]).kind = "reject")
          => /\ Outstanding(id)
             /\ \A j \in 1..Len(outcome) : j # id => outcome'[j] = outcome[j]
             /\ commandQueue' = commandQueue
             /\ isProcessingQueue' = (commandQueue # <<>>)
             /\ Len(timers') = IF commandQueue # <<>> THEN 1 ELSE 0
             /\ ~crashed']_vars
  /\ \A j \in 1..MaxRequests :
       (InQueue(j) /\ \E i \in 1..MaxRequests : Rejected(i)) ~> Issued(j)

\* C4 witness: the first write failed, and the entry that was waiting behind
\* it has been written and resolved.
C4_Witness ==
  /\ Len(QueueIssued) >= 2
  /\ Rejected(QueueIssued[1].id)
  /\ Resolved(QueueIssued[2].id)

\* C5: the promise of an entry is settled at most once, exactly once as
\* soon as its write has completed, by the callback of its own write, and a
\* resolve carries its own trimmed command.
C5_SettledOnce ==
  \A id \in 1..Len(requests) :
    /\ Len(outcome[id]) <= 1
    /\ (Len(outcome[id]) = 1) <=> (Enqueued(id) /\ WriteCompleted(id))
    /\ Len(outcome[id]) = 1 =>
         /\ outcome[id][1].kind \in {"resolve", "reject"}
         /\ issued[outcome[id][1].write].id = id
         /\ outcome[id][1].kind = "resolve" =>
              outcome[id][1].command = Trim(FormatCommand(requests[id].command))

\* C5 witness: three entries with different outcomes and commands are all
\* settled.
C5_Witness ==
  /\ Len(requests) = 3
  /\ Resolved(1) /\ Rejected(2) /\ Resolved(3)
  /\ outcome[1][1].command # outcome[3][1].command

\* C6: with a fair timer and every write completing, each enqueued command
\* is eventually written and its promise settled.
C6_NoStarvation ==
  \A id \in 1..MaxRequests :
    Enqueued(id) ~> (WriteCompleted(id) /\ Len(outcome[id]) = 1)

\* C6 witness: the last of three commands, enqueued while the first was
\* being written, is written and settled.
C6_Witness ==
  /\ Enqueued(1) /\ Enqueued(2) /\ Enqueued(3)
  /\ WriteCompleted(3) /\ Len(outcome[3]) = 1
  /\ QueueIssued[1].time < QueueIssued[3].time

\* C7 as stated: the busy flag is true iff a dispatcher write is outstanding.
C7_BusyIffWriteOutstanding == isProcessingQueue <=> (QueueWrites # <<>>)

\* C7 amended: the busy flag is true iff a dispatcher write is outstanding
\* or a rate-limit timer of the dispatcher is pending.
C7_BusyIffWriteOrTimer ==
  isProcessingQueue <=> (QueueWrites # <<>> \/ timers # <<>>)

\* C7 witness: a write has completed and the flag is held by the pending
\* timer of the next entry alone, no write being outstanding.
C7_Witness ==
  /\ isProcessingQueue /\ QueueWrites = <<>> /\ timers # <<>>
  /\ Len(QueueIssued) >= 1

\* The send calls on c that found the socket OPEN: the lines delivered.
Delivered(c) == SelectSeq(sent[c], LAMBDA r : r.open)
\* A 'close' or 'error' event has been emitted for c.
Gone(c) == "close" \in seen[c] \/ "error" \in seen[c]
\* The sockets registered for device lines: the set of part_000, the
\* listeners of index.js.
Subscribers ==
  IF variant = "part_000" THEN connectedClients
  ELSE {dataListeners[k] : k \in 1..Len(dataListeners)}
\* This step is the arrival of a device line.
LineArrives == lines' # lines
\* The send call that delivers the arriving line.
ThisLine == [n |-> Len(lines'), data |-> lines'[Len(lines')], open |-> TRUE]

\* C8: a broadcast of part_000 sends the line once to every socket of the
\* set that is OPEN and to no other, and leaves the set as it was.
C8_Broadcast ==
  [][(variant = "part_000" /\ LineArrives) =>
       /\ \A c \in Clients :
            sent'[c] = IF c \in connectedClients /\ readyState[c] = OPEN
                         THEN Append(sent[c], ThisLine) ELSE sent[c]
       /\ connectedClients' = connectedClients
       /\ ~hubCrashed']_vars

\* C8 witness: after two lines, an OPEN subscriber has both while a
\* subscriber that was CLOSING at the second has only the first, and is
\* still in the set.
C8_Witness ==
  /\ variant = "part_000" /\ Len(lines) = 2
  /\ \E c1, c2 \in connectedClients :
       /\ readyState[c1] = OPEN /\ Len(sent[c1]) = 2
       /\ readyState[c2] = CLOSING /\ Len(sent[c2]) = 1 /\ sent[c2][1].n = 1

\* C9: a socket is registered exactly from its 'connection' event to its
\* first 'close' or 'error' event; a line arriving while it is registered
\* and OPEN is sent to it verbatim, and once it is gone no send call is
\* made on it.
C9_SubscriberLifetime ==
  /\ [](\A c \in Clients :
          c \in Subscribers <=> ("connection" \in seen[c] /\ ~Gone(c)))
  /\ [][LineArrives =>
          \A c \in Clients :
            /\ (c \in Subscribers /\ readyState[c] = OPEN)
                 => sent'[c] = Append(sent[c], ThisLine)
            /\ Gone(c) => sent'[c] = sent[c]]_vars

\* C10: the lines delivered to a socket are a subsequence of the lines the
\* parser emitted, in arrival order and each at most once.
C10_ArrivalOrder ==
  \A c \in Clients :
    LET d == Delivered(c)
    IN /\ \A i, j \in 1..Len(d) : i < j => d[i].n < d[j].n
       /\ \A i \in 1..Len(d) : d[i].n \in 1..Len(lines) /\ d[i].data = lines[d[i].n]

\* C10 witness: under the per-connection listeners of index.js, one socket
\* has both lines, which differ, in arrival order, and a socket that
\* connected after the first line has the second alone.
C10_Witness ==
  /\ variant = "index.js"
  /\ \E c1, c2 \in Clients :
       /\ Len(Delivered(c1)) = 2
       /\ Delivered(c1)[1].n = 1 /\ Delivered(c1)[2].n = 2
       /\ Delivered(c1)[1].data # Delivered(c1)[2].data
       /\ Len(Delivered(c2)) = 1 /\ Delivered(c2)[1].n = 2

\* This step emits a 'close' or 'error' event for socket c.
Unregisters(c) == seen'[c] # seen[c] /\ "connection" \in seen[c]

\* C11: in part_000 a 'close' or 'error' event removes its socket and no
\* other; the removal of a socket already removed (a 'close' after an
\* 'error') raises nothing and leaves the set as the first removal left it.
C11_UnregisterIdempotent ==
  [][\A c \in Clients :
       (variant = "part_000" /\ Unregisters(c)) =>
         /\ connectedClients' = connectedClients \ {c}
         /\ Gone(c) => connectedClients' = connectedClients
         /\ ~hubCrashed']_vars

\* C11 witness: a socket has had its 'error' and then its 'close' event, it
\* is out of the set and the other socket is still in it.
C11_Witness ==
  /\ variant = "part_000"
  /\ \E c1, c2 \in Clients :
       /\ seen[c1] = {"connection", "error", "close"}
       /\ c1 \notin connectedClients
       /\ c2 \in connectedClients

\* This step is a call of port.write by the status check.
StatusIssues ==
  /\ Len(issued') = Len(issued) + 1
  /\ issued'[Len(issued')].src = "status"

\* C12: the status check's write is not coordinated with the dispatcher: it
\* can be issued whatever the busy flag, the queue and lastCommandTime are,
\* and issuing it changes none of the flag, the queue, lastCommandTime and
\* the pending timers.
C12_StatusUncoordinated ==
  [][/\ (~crashed /\ Len(statusCalls) < MaxStatus) => ENABLED OneStatusStep
     /\ StatusIssues =>
          UNCHANGED <<isProcessingQueue, commandQueue, lastCommandTime, timers>>]_vars

\* C12 witness: a status write was issued less than 300 ms after a
\* dispatcher write that is still outstanding; both are on the link.
C12_Witness ==
  /\ Len(writes) = 2
  /\ writes[1].src = "queue" /\ writes[2].src = "status"
  /\ isProcessingQueue
  /\ \E n \in 2..Len(issued) :
       /\ issued[n].src = "status" /\ issued[n - 1].src = "queue"
       /\ issued[n].time - issued[n - 1].time < RATE_LIMIT_MS
       /\ lastCommandTime = issued[n - 1].time

\* Sequence s is an initial part of sequence t.
IsPrefix(s, t) == Len(s) <= Len(t) /\ SubSeq(t, 1, Len(s)) = s

\* A dispatcher write is outstanding and this step is not its callback.
WriteStalls == QueueWrites # <<>> /\ QueueWrites' = QueueWrites

\* C13: as long as the callback of an outstanding dispatcher write does not
\* run, the flag stays true, no timer is armed, no further entry is written
\* or settled, and the queue only grows: enqueues append to it and nothing
\* leaves it.
C13_StalledWriteBlocks ==
  [][WriteStalls =>
       /\ isProcessingQueue /\ isProcessingQueue'
       /\ timers = <<>> /\ timers' = <<>>
       /\ QueueIssued' = QueueIssued
       /\ \A id \in 1..Len(outcome) : outcome'[id] = outcome[id]
       /\ \A id \in 1..Len(responses) : responses'[id] = responses[id]
       /\ IsPrefix(commandQueue, commandQueue')]_vars

\* C13 witness: a write has been outstanding for a whole rate-limit period,
\* two entries wait behind it and nothing has been settled.
C13_Witness ==
  /\ Len(QueueWrites) = 1
  /\ Len(commandQueue) = 2
  /\ isProcessingQueue
  /\ clock - lastCommandTime >= RATE_LIMIT_MS
  /\ \A id \in 1..Len(outcome) : outcome[id] = <<>>

\* This step is a POST /send-command, and the body it carries.
Posts == Len(requests') = Len(requests) + 1
Posted == requests'[Len(requests')]

\* The command as the caller gave it, for the entry of request id.
Given(id) == requests'[id].command

\* C14: POST /send-command without a command (missing or empty) answers 400
\* and leaves queue, flag and lastCommandTime alone; otherwise it appends one
\* entry whose payload is the command, with CR LF appended iff the command
\* did not end with CR LF.  So normalising a payload again changes nothing,
\* every payload written ends with the terminator (the caller's or the
\* appended one), and a success result carries the trimmed command.
C14_SendCommandNormalises ==
  [][/\ (Posts /\ Falsy(Posted)) =>
          /\ responses'[Len(responses')].status = 400
          /\ UNCHANGED <<commandQueue, isProcessingQueue, lastCommandTime>>
     /\ (Posts /\ ~Falsy(Posted)) =>
          /\ Len(commandQueue') = Len(commandQueue) + 1
          /\ SubSeq(commandQueue', 1, Len(commandQueue)) = commandQueue
          /\ LET payload == commandQueue'[Len(commandQueue')].command
             IN /\ EndsWithCRLF(Posted.command) => payload = Posted.command
                /\ ~EndsWithCRLF(Posted.command) =>
                     payload = Posted.command \o <<CR, LF>>
                /\ FormatCommand(payload) = payload
     /\ \A n \in 1..Len(QueueIssued') :
          LET w == QueueIssued'[n]
          IN /\ EndsWithCRLF(w.command)
             /\ w.command \in {Given(w.id), Given(w.id) \o <<CR, LF>>}
             /\ EndsWithCRLF(Given(w.id)) => w.command = Given(w.id)
     /\ \A id \in 1..Len(responses') :
          responses'[id].status = 200 =>
            responses'[id].command = Trim(Given(id))]_vars

\* C14 witness: one request without a command was answered 400, one with
\* "A" and one with "B\r\n" were written and answered with "A" and "B".
C14_Witness ==
  \E i, j, k \in 1..Len(requests) :
    /\ ~requests[i].has /\ responses[i].status = 400
    /\ requests[j].command = <<"A">>
    /\ responses[j] = [status |-> 200, command |-> <<"A">>]
    /\ requests[k].command = <<"B", CR, LF>>
    /\ responses[k] = [status |-> 200, command |-> <<"B">>]
    /\ Len(QueueIssued) = 2

\* The part of s before its first character in set stop (all of s if none).
RECURSIVE UpTo(_, _)
UpTo(s, stop) ==
  IF s = <<>> \/ Head(s) \in stop THEN <<>>
  ELSE <<Head(s)>> \o UpTo(Tail(s), stop)

\* The part of s after its first ch.
AfterFirst(s, ch) == SubSeq(s, Len(UpTo(s, {ch})) + 2, Len(s))

\* The non-empty runs of s between single spaces, in order.
RECURSIVE Words(_)
Words(s) ==
  IF s = <<>> THEN <<>>
  ELSE IF Head(s) = " " THEN Words(Tail(s))
  ELSE LET w == UpTo(s, {" "})
       IN <<w>> \o Words(SubSeq(s, Len(w) + 1, Len(s)))

\* Token t without its first "d", and without any "d".
WithoutFirstD(t) ==
  LET pre == UpTo(t, {"d"})
  IN IF Len(pre) = Len(t) THEN t ELSE pre \o SubSeq(t, Len(pre) + 2, Len(t))
WithoutAnyD(t) == SelectSeq(t, LAMBDA x : x # "d")

\* The tags of a sequence of codes: "000" dropped, "001" mist, others mask.
Tags(codes) ==
  LET kept == SelectSeq(codes, LAMBDA x : x # <<"0", "0", "0">>)
  IN [i \in 1..Len(kept) |->
        IF kept[i] = <<"0", "0", "1">> THEN "mist" ELSE "mask"]

\* The algorithm as stated: the text between the first "[" and the first
\* following "]" (the rest of the line when none follows), every "d" of a
\* token stripped.
StatedStickers(s) ==
  IF ~Includes(s, "[") THEN <<>>
  ELSE LET text == UpTo(AfterFirst(s, "["), {"]"})
           words == Words(text)
       IN Tags([i \in 1..Len(words) |-> WithoutAnyD(words[i])])

\* The algorithm with the text ending at the next "[" as well, and only the
\* first "d" of a token stripped.
AmendedStickers(s) ==
  IF ~Includes(s, "[") THEN <<>>
  ELSE LET text == UpTo(AfterFirst(s, "["), {"[", "]"})
           words == Words(text)
       IN Tags([i \in 1..Len(words) |-> WithoutFirstD(words[i])])

\* C15 as stated: getStickers returns, on every line, what the stated
\* algorithm gives.
C15_EqualsStatedAlgorithm ==
  stickerDone => stickerOut = StatedStickers(stickerIn)

\* C15 amended: getStickers is total and returns, on every line, the tags
\* of the text after the first "[" up to the next "[" or "]" or the end of
\* the line, split on single spaces, empty tokens dropped, the first "d" of
\* each token removed, "000" dropped, "001" mist and anything else mask; the
\* four example lines give ["mist","mask"], [], [] and [].
C15_EqualsAmendedAlgorithm ==
  stickerDone =>
    /\ stickerOut = AmendedStickers(stickerIn)
    /\ \A i \in 1..Len(stickerOut) : stickerOut[i] \in {"mist", "mask"}
    /\ stickerIn = Example1 => stickerOut = <<"mist", "mask">>
    /\ stickerIn \in {Example2, Example3, Example4} => stickerOut = <<>>

\* C15 witness: on "[dd001" the code answers ["mask"] (one "d" is left in
\* the token) where the stated algorithm gives ["mist"].
C15_Witness ==
  /\ stickerDone
  /\ stickerIn = <<"[", "d", "d", "0", "0", "1">>
  /\ stickerOut = <<"mask">>
  /\ StatedStickers(stickerIn) = <<"mist">>

\* The writes the status check of call k has issued.
StatusIssued(k) ==
  SelectSeq(issued, LAMBDA r : r.src = "status" /\ r.id = k)

\* The write of call k has not failed before its answer was decided.
NotFailedFirst(c) == c.settled = <<>> \/ c.settled[1].kind = "resolve"

\* C16: GET /check-rfid-status issues one write of X<channel>B[] CR LF, the
\* channel "008" unless the query gives one; once a device line has arrived
\* and the write has not failed, the answer is the tags parsed from that
\* line, whatever the line is (the empty line included); the answer is 500
\* only when the write failed.
C16_StatusAnswersEveryLine ==
  \A k \in 1..Len(statusCalls) :
    LET c == statusCalls[k]
        ch == IF c.query.has /\ c.query.channel # <<>>
                THEN c.query.channel ELSE <<"0", "0", "8">>
    IN /\ Len(StatusIssued(k)) = 1
       /\ StatusIssued(k)[1].command = <<"X">> \o ch \o <<"B", "[", "]", CR, LF>>
       /\ (c.arrived # <<>> /\ NotFailedFirst(c)) =>
            c.response = [status |-> 200, body |-> getStickers(c.arrived[1])]
       /\ c.response.status = 500 => ~NotFailedFirst(c)

\* This step appends one entry to the queue and removes none.
Enqueues ==
  IsPrefix(commandQueue, commandQueue') /\ Len(commandQueue') = Len(commandQueue) + 1

\* This step takes the head of the queue and issues the write of that entry.
DequeuesHead ==
  /\ commandQueue # <<>>
  /\ commandQueue' = Tail(commandQueue)
  /\ QueueIssued' # QueueIssued
  /\ LET w == QueueIssued'[Len(QueueIssued')]
     IN w.id = Head(commandQueue).id /\ w.command = Head(commandQueue).command

\* This step is a 'close' or 'error' event of the serial port.
PortEmits == portEvents' # portEvents

\* C17: the queue changes only by an enqueue at its tail or by the dequeue
\* of its head for that entry's write; an entry still waiting has not been
\* settled; and a 'close' or 'error' event of the port changes neither the
\* queue nor the flag nor any promise, timer or outstanding write.
C17_NoWithdrawal ==
  [][/\ commandQueue' # commandQueue => (Enqueues \/ DequeuesHead)
     /\ \A k \in 1..Len(commandQueue') :
          /\ outcome'[commandQueue'[k].id] = <<>>
          /\ responses'[commandQueue'[k].id] = NoResponse
     /\ PortEmits =>
          UNCHANGED <<commandQueue, isProcessingQueue, outcome, responses,
                      timers, writes, lastCommandTime>>]_vars

\* C17 witness: the port has emitted 'error' and 'close'; one entry has been
\* settled, one is being written and one still waits.
C17_Witness ==
  /\ portEvents = <<"error", "close">>
  /\ Len(commandQueue) = 1
  /\ Len(QueueWrites) = 1
  /\ isProcessingQueue
  /\ \E id \in 1..Len(outcome) : outcome[id] # <<>>

\* This step enqueues a command while the dispatcher is idle and the queue
\* is empty.
EnqueuesWhenIdle ==
  Posts /\ ~Falsy(Posted) /\ ~isProcessingQueue /\ commandQueue = <<>>

\* Payload s without the CR LF it ends with.
StripTerminator(s) == SubSeq(s, 1, Len(s) - 2)

AdvanceStarts == ~isProcessingQueue /\ isProcessingQueue'

\* This step issues a dispatcher write.
QueueIssues == Len(QueueIssued') = Len(QueueIssued) + 1

QueueWriteCompletes == Len(QueueWrites') = Len(QueueWrites) - 1

\* C20: the dispatcher is Idle (flag false) or Dispatching (flag true).  The
\* advance attempted by an enqueue while Dispatching changes neither flag,
\* lastCommandTime nor timers (the queue only gets the pushed entry); the
\* advance attempted by a write completion on an empty queue leaves the
\* dispatcher Idle with queue, lastCommandTime and timers unchanged.  Idle
\* becomes Dispatching only by an advance with a non-empty queue, which arms
\* one timer; Dispatching becomes Idle only by a write completion.
C20_IdleDispatching ==
  [][/\ (Posts /\ ~Falsy(Posted) /\ isProcessingQueue) =>
          /\ Enqueues
          /\ UNCHANGED <<isProcessingQueue, lastCommandTime, timers>>
     /\ (QueueWriteCompletes /\ commandQueue = <<>>) =>
          /\ ~isProcessingQueue'
          /\ UNCHANGED <<commandQueue, lastCommandTime, timers>>
     /\ (~isProcessingQueue /\ isProcessingQueue') =>
          /\ Posts
          /\ commandQueue' # <<>>
          /\ Len(timers') = Len(timers) + 1
     /\ (isProcessingQueue /\ ~isProcessingQueue') => QueueWriteCompletes
     /\ (QueueWriteCompletes /\ commandQueue # <<>>) =>
          /\ isProcessingQueue'
          /\ Len(timers') = Len(timers) + 1
          /\ UNCHANGED <<commandQueue, lastCommandTime>>]_vars

\* C20 witness: the dispatcher is Idle again after two writes, one that
\* failed and one that succeeded; nothing is queued and no timer is armed.
C20_Witness ==
  /\ ~isProcessingQueue
  /\ commandQueue = <<>>
  /\ timers = <<>>
  /\ writes = <<>>
  /\ Len(QueueIssued) = 2
  /\ \E i, j \in 1..Len(outcome) : Rejected(i) /\ Resolved(j)

\* What the dispatcher has pending: rate-limit timers and outstanding writes.
PendingCount == Len(timers) + Len(QueueWrites)

\* C21: the dispatcher never has more than one thing pending, a rate-limit
\* timer or an outstanding write and never both, and the flag is true
\* exactly when it has one; an enqueue made while busy adds no timer.
C21_ExactlyOnePending ==
  [][/\ PendingCount <= 1 /\ PendingCount' <= 1
     /\ isProcessingQueue <=> PendingCount = 1
     /\ isProcessingQueue' <=> PendingCount' = 1
     /\ (Posts /\ PendingCount = 1) => timers' = timers]_vars

\* C21 witness: three entries were enqueued, the last two while the timer of
\* the first was pending; there is still that one timer and no write.
C21_Witness ==
  /\ isProcessingQueue
  /\ Len(commandQueue) = 3
  /\ Len(timers) = 1
  /\ writes = <<>>
  /\ issued = <<>>

\* This step is the callback of a rate-limit timer.
TimerFires == Len(timers') = Len(timers) - 1

\* C22: whenever a rate-limit timer fires the queue is non-empty, so the
\* callback's shift yields an entry, which it writes, and the destructuring
\* never throws.
C22_TimerFindsEntry ==
  [][TimerFires =>
       /\ commandQueue # <<>>
       /\ DequeuesHead
       /\ ~crashed']_vars

\* C22 witness: three timers have fired, each on a non-empty queue; the last
\* one took the last entry, whose write is outstanding.
C22_Witness ==
  /\ ~crashed
  /\ Len(QueueIssued) = 3
  /\ commandQueue = <<>>
  /\ Len(QueueWrites) = 1
  /\ timers = <<>>

====
